---------------------------- MODULE Spec2Model ----------------------------
(***************************************************************************)
(* A model of the EllipticCurves crate: the RU256 modular arithmetic, the  *)
(* affine and Jacobian point arithmetic, and raw_sign / raw_verify /       *)
(* raw_recover.                                                            *)
(*                                                                         *)
(* Scaling.  TLC's integers are 32 bits wide, so the 256-bit word of the   *)
(* code (primitive_types::U256) is modelled by a word of W bits and the    *)
(* two named curves by curves over W-bit primes that keep the features of  *)
(* secp256k1 / secp256r1 the code depends on:                              *)
(*   - p is prime, p = 3 (mod 4) (sqrt_exp_num = (p+1)/4 is a square-root  *)
(*     exponent), 2^(W-1) < p < 2^W (sums of two reduced values overflow   *)
(*     the word, as they do for both real primes);                         *)
(*   - the group has prime order n, 28 < n < p (so 0x1b + 1 is not reduced *)
(*     by add_mod(.., n), and some x-coordinates are >= n);                *)
(*   - K1: a = 0, b = 7, p = 1 (mod 3), and the eigenvalue lambda of the   *)
(*     endomorphism (x,y) -> (beta*x, y) is even, as it is on secp256k1;   *)
(*   - R1: a = p - 3, and b is a square (a point with x = 0 exists), as on *)
(*     secp256r1.                                                          *)
(* A panic of the Rust code (a failed assert!, expect, unwrap, or the      *)
(* overflow check of U256's operators) is the value PANIC; every operator  *)
(* returns PANIC when an operand is PANIC, as a panic unwinds the callers. *)
(***************************************************************************)
EXTENDS Integers, Sequences, FiniteSets, TLC

\* Width in bits of the model's machine word (U256 in the code).
W == 8

\* Bits per byte, and bytes per word ([0; 32] in the code).
ByteBits == 8
NBytes == W \div ByteBits

Pow2W == 2 ^ W
MAXU == Pow2W - 1

PANIC == -1

IsPanic(v) == v < 0

-----------------------------------------------------------------------------
(* primitive_types::U256 helpers *)

\* checked_rem(p).expect("modulo")
Rem(a, p) ==
    IF IsPanic(a) \/ IsPanic(p) THEN PANIC
    ELSE IF p = 0 THEN PANIC
    ELSE a % p

\* checked_add(..).expect(..)
CheckedAdd(a, b) ==
    IF IsPanic(a) \/ IsPanic(b) THEN PANIC
    ELSE IF a + b > MAXU THEN PANIC
    ELSE a + b

\* checked_sub(..).expect(..), and U256's `-`, which panics on overflow
CheckedSub(a, b) ==
    IF IsPanic(a) \/ IsPanic(b) THEN PANIC
    ELSE IF a < b THEN PANIC
    ELSE a - b

-----------------------------------------------------------------------------
(* bytes.rs and RU256::to_bytes *)

\* to_big_endian: the word as NBytes bytes, most significant first
ToBytes(v) == [k \in 1..NBytes |-> (v \div (2 ^ (ByteBits * (NBytes - k)))) % (2 ^ ByteBits)]

\* The binary digits of m without leading zeros ("0" for 0): what {:b} prints.
RECURSIVE BinDigits(_)
BinDigits(m) ==
    IF m < 2 THEN <<m>> ELSE Append(BinDigits(m \div 2), m % 2)

\* format!("{:8b}", m): right-aligned in 8 columns, padded with spaces (2 here)
Format8b(m) ==
    LET ds == BinDigits(m)
    IN [k \in 1..(ByteBits - Len(ds)) |-> 2] \o ds

\* bytes_to_binary: '1' pushes 1, every other character (0 or a space) pushes 0
RECURSIVE BytesToBinaryFrom(_, _)
BytesToBinaryFrom(bs, k) ==
    IF k > Len(bs) THEN <<>>
    ELSE LET chars == Format8b(bs[k])
         IN [j \in 1..ByteBits |-> IF chars[j] = 1 THEN 1 ELSE 0]
            \o BytesToBinaryFrom(bs, k + 1)

BytesToBinary(bs) == BytesToBinaryFrom(bs, 1)

-----------------------------------------------------------------------------
(* ru256.rs *)

\* An add_mod that keeps the wrapped sum on overflow: the variant C11 is
\* compared against.
AddModSumWrapped(x1, x2, p) ==
    IF IsPanic(x1) \/ IsPanic(x2) THEN PANIC
    ELSE Rem((x1 + x2) % Pow2W, p)

\* add_mod after the two checked_rem: overflowing_add, the fix-up on overflow,
\* and the final checked_rem
AddModSum(x1, x2, p) ==
    IF IsPanic(x1) \/ IsPanic(x2) THEN PANIC
    ELSE IF x1 + x2 > MAXU                                      \* over
    THEN Rem(CheckedAdd((x1 + x2) % Pow2W, CheckedAdd(CheckedSub(MAXU, p), 1)), p)
    ELSE Rem((x1 + x2) % Pow2W, p)

AddMod(a, b, p) == AddModSum(Rem(a, p), Rem(b, p), p)

\* sub_mod after the two checked_rem: x1.add_mod(p.v - x2, p)
SubModRem(x1, x2, p) ==
    IF IsPanic(x1) \/ IsPanic(x2) THEN PANIC
    ELSE AddMod(x1, CheckedSub(p, x2), p)

SubMod(a, b, p) == SubModRem(Rem(a, p), Rem(b, p), p)

\* `if d > 0 { on = true; base = base.add_mod(&adder, p) }`
MulAddStep(d, base, adder, p) == IF d > 0 THEN AddMod(base, adder, p) ELSE base

\* The loop of mul_mod over seq_binaries[k..], with accumulator base.
RECURSIVE MulLoop(_, _, _, _, _, _)
MulLoop(bits, k, on, base, adder, p) ==
    IF k > Len(bits) \/ IsPanic(base) THEN base
    ELSE MulLoop(bits, k + 1, on \/ bits[k] > 0,
                 MulAddStep(bits[k], IF on THEN AddMod(base, base, p) ELSE base, adder, p),
                 adder, p)

\* A mul_mod that adds the smaller operand, the one it scans, instead of the
\* larger: the variant C12 is compared against.
MulModRemSame(x1, x2, p) ==
    IF IsPanic(x1) \/ IsPanic(x2) THEN PANIC
    ELSE MulLoop(BytesToBinary(ToBytes(IF x1 < x2 THEN x1 ELSE x2)), 1, FALSE, 0,
                 IF x1 < x2 THEN x1 ELSE x2, p)

\* mul_mod after the two checked_rem: seq is the smaller operand, adder the other
MulModRem(x1, x2, p) ==
    IF IsPanic(x1) \/ IsPanic(x2) THEN PANIC
    ELSE MulLoop(BytesToBinary(ToBytes(IF x1 < x2 THEN x1 ELSE x2)), 1, FALSE, 0,
                 IF x1 < x2 THEN x2 ELSE x1, p)

MulMod(a, b, p) == MulModRem(Rem(a, p), Rem(b, p), p)

\* `if d > 0 { on = true; base = base.mul_mod(&multiplier, p) }`
ExpMulStep(d, base, multiplier, p) == IF d > 0 THEN MulMod(base, multiplier, p) ELSE base

\* The loop of exp_mod over seq_binaries[k..], with accumulator base.
RECURSIVE ExpLoop(_, _, _, _, _, _)
ExpLoop(bits, k, on, base, multiplier, p) ==
    IF k > Len(bits) \/ IsPanic(base) THEN base
    ELSE ExpLoop(bits, k + 1, on \/ bits[k] > 0,
                 ExpMulStep(bits[k], IF on THEN MulMod(base, base, p) ELSE base,
                            multiplier, p),
                 multiplier, p)

\* An exp_mod that reduces its exponent modulo p first: the variant C13 is
\* compared against.
ExpModRemReduced(multiplier, e, p) ==
    IF IsPanic(multiplier) \/ IsPanic(e) THEN PANIC
    ELSE ExpLoop(BytesToBinary(ToBytes(Rem(e, p))), 1, FALSE, 1, multiplier, p)

\* exp_mod after the checked_rem of the base: the accumulator starts at one
ExpModRem(multiplier, e, p) ==
    IF IsPanic(multiplier) \/ IsPanic(e) THEN PANIC
    ELSE ExpLoop(BytesToBinary(ToBytes(e)), 1, FALSE, 1, multiplier, p)

\* An exp_mod that refuses to raise a base that is 0 modulo p to a positive
\* power: the variant C23 is compared against.
ExpModNonZeroBase(b, e, p) ==
    IF Rem(b, p) = 0 /\ e > 0 THEN PANIC
    ELSE ExpModRem(Rem(b, p), e, p)

\* RU256::exp_mod
ExpMod(b, e, p) == ExpModRem(Rem(b, p), e, p)

\* A div_mod that refuses a divisor that is zero modulo p (the code has no such
\* check): the variant C7 is compared against.
DivModExpNonZero(a, b, pm2, p) ==
    IF IsPanic(a) \/ IsPanic(b) \/ IsPanic(pm2) THEN PANIC
    ELSE IF ~(pm2 > 0) THEN PANIC
    ELSE IF Rem(b, p) = 0 THEN PANIC
    ELSE MulMod(a, ExpMod(b, pm2, p), p)

\* div_mod given p.v - 2: the assert!, then self.mul_mod(b.exp_mod(p - 2, p), p)
DivModExp(a, b, pm2, p) ==
    IF IsPanic(a) \/ IsPanic(b) \/ IsPanic(pm2) THEN PANIC
    ELSE IF ~(pm2 > 0) THEN PANIC
    ELSE MulMod(a, ExpMod(b, pm2, p), p)

\* A div_mod that raises the divisor to p - 1: the variant C14 is compared
\* against.
DivModPm1(a, b, p) == DivModExp(a, b, CheckedSub(p, 1), p)

\* RU256::div_mod
DivMod(a, b, p) == DivModExp(a, b, CheckedSub(p, 2), p)

-----------------------------------------------------------------------------
(* curves/k1.rs, curves/r1.rs: the SECP256 trait's parameters, scaled *)

\* p_plus_1.div_mod(4).0 with p_plus_1 = p.checked_add(1).unwrap()
SqrtExpNum(p) == CheckedAdd(p, 1) \div 4

K1 == [p |-> 163, gx |-> 2, gy |-> 34, n |-> 139, a |-> 0, b |-> 7,
       n_div_2 |-> 69, sqrt_exp_num |-> SqrtExpNum(163)]

R1 == [p |-> 151, gx |-> 3, gy |-> 43, n |-> 137, a |-> 148, b |-> 19,
       n_div_2 |-> 68, sqrt_exp_num |-> SqrtExpNum(151)]

Curves == {"K1", "R1"}

Curve(c) == IF c = "K1" THEN K1 ELSE R1

-----------------------------------------------------------------------------
(* ecmaths/affine.rs *)

AffPanic == [x |-> PANIC, y |-> PANIC]

\* ECAffinePoint { x, y }: building the value needs both coordinates computed
MkAff(x, y) == IF IsPanic(x) \/ IsPanic(y) THEN AffPanic ELSE [x |-> x, y |-> y]

IsPanicPt(P) == IsPanic(P.x)

AffZeroPoint == [x |-> 0, y |-> 0]

AffIsZeroPoint(P) == P.x = 0 /\ P.y = 0

G(c) == [x |-> Curve(c).gx, y |-> Curve(c).gy]

\* y3 = slope(x1 - x3) - y1, and the point built from x3 and y3
AffChord(P, slope, x, p) ==
    MkAff(x, SubMod(MulMod(slope, SubMod(P.x, x, p), p), P.y, p))

\* An add that returns the identity when the two x are equal (the code has no
\* such case): the variant C21 is compared against.
AffAddSlopeCancel(P, Q, slope, p) ==
    IF P.x = Q.x THEN AffZeroPoint
    ELSE AffChord(P, slope, SubMod(SubMod(MulMod(slope, slope, p), P.x, p), Q.x, p), p)

\* add: x3 = slope ** 2 - x1 - x2
AffAddSlope(P, Q, slope, p) ==
    AffChord(P, slope, SubMod(SubMod(MulMod(slope, slope, p), P.x, p), Q.x, p), p)

\* An add that looks at the identity cases before it asserts.
AffAddIdentityFirst(P, Q, c) ==
    IF IsPanicPt(P) \/ IsPanicPt(Q) THEN AffPanic
    ELSE IF AffIsZeroPoint(P) THEN Q
    ELSE IF AffIsZeroPoint(Q) THEN P
    ELSE IF ~(P.y # Q.y) THEN AffPanic
    ELSE AffAddSlope(P, Q,
                     DivMod(SubMod(P.y, Q.y, Curve(c).p), SubMod(P.x, Q.x, Curve(c).p),
                            Curve(c).p),
                     Curve(c).p)

\* ECAffinePoint::add
AffAdd(P, Q, c) ==
    IF IsPanicPt(P) \/ IsPanicPt(Q) THEN AffPanic
    ELSE IF ~(P.y # Q.y) THEN AffPanic            \* assert!(self.y != other.y)
    ELSE IF AffIsZeroPoint(P) THEN Q
    ELSE IF AffIsZeroPoint(Q) THEN P
    ELSE AffAddSlope(P, Q,
                     DivMod(SubMod(P.y, Q.y, Curve(c).p), SubMod(P.x, Q.x, Curve(c).p),
                            Curve(c).p),
                     Curve(c).p)

\* double: x3 = slope ** 2 - x1 - x1
AffDoubleSlope(P, slope, p) ==
    AffChord(P, slope, SubMod(SubMod(MulMod(slope, slope, p), P.x, p), P.x, p), p)

AffDouble(P, c) ==
    IF IsPanicPt(P) THEN AffPanic
    ELSE IF AffIsZeroPoint(P) THEN AffZeroPoint
    ELSE IF P.y = 0 THEN AffZeroPoint
    ELSE AffDoubleSlope(P,
                        DivMod(AddMod(MulMod(ExpMod(P.x, 2, Curve(c).p), 3, Curve(c).p),
                                      Curve(c).a, Curve(c).p),
                               MulMod(P.y, 2, Curve(c).p), Curve(c).p),
                        Curve(c).p)

\* (scalar.v >> i) & U256::one()
Bit(scalar, i) == (scalar \div (2 ^ i)) % 2

\* `if bit == U256::one() { r = r.add(&self, curve) }`
AffLadderAdd(d, P, bit, c) == IF bit = 1 THEN AffAdd(d, P, c) ELSE d

\* One iteration of the while loop of ECAffinePoint::multiply.
AffLadderStep(r, P, scalar, i, c) == AffLadderAdd(AffDouble(r, c), P, Bit(scalar, i), c)

RECURSIVE AffLadder(_, _, _, _, _)
AffLadder(r, P, scalar, i, c) ==
    IF i = -1 \/ IsPanicPt(r) THEN r
    ELSE AffLadder(AffLadderStep(r, P, scalar, i, c), P, scalar, i - 1, c)

AffMultiply(P, scalar, c) ==
    IF IsPanicPt(P) \/ IsPanic(scalar) THEN AffPanic
    ELSE IF P.y = 0 \/ scalar = 0 THEN AffZeroPoint
    ELSE IF scalar = 1 THEN P
    ELSE AffLadder(AffZeroPoint, P, scalar, W - 1, c)

-----------------------------------------------------------------------------
(* ecmaths/jacobian.rs *)

JacPanic == [x |-> PANIC, y |-> PANIC, z |-> PANIC]

MkJac(x, y, z) ==
    IF IsPanic(x) \/ IsPanic(y) \/ IsPanic(z) THEN JacPanic
    ELSE [x |-> x, y |-> y, z |-> z]

JacZeroPoint == [x |-> 0, y |-> 0, z |-> 1]

JacIsZeroPoint(P) == P.x = 0 /\ P.y = 0

ToJacobian(P) == IF IsPanicPt(P) THEN JacPanic ELSE [x |-> P.x, y |-> P.y, z |-> 1]

\* double: y3 = m * (s - x3) - 8 * ysq ** 2 and z3 = 2 * y1 * z1
JacDoubleYZ(P, ysq, s, m, x, p) ==
    MkJac(x,
          SubMod(MulMod(m, SubMod(s, x, p), p), MulMod(8, MulMod(ysq, ysq, p), p), p),
          MulMod(MulMod(P.y, 2, p), P.z, p))

\* double: x3 = m ** 2 - 2 * s
JacDoubleX(P, ysq, s, m, p) ==
    JacDoubleYZ(P, ysq, s, m, SubMod(MulMod(m, m, p), MulMod(2, s, p), p), p)

\* double: s = 4 * x * ysq and m = 3 * x ** 2 + A * z ** 4
JacDoubleSM(P, ysq, a, p) ==
    JacDoubleX(P, ysq,
               MulMod(MulMod(P.x, 4, p), ysq, p),
               AddMod(MulMod(MulMod(P.x, P.x, p), 3, p), MulMod(ExpMod(P.z, 4, p), a, p), p),
               p)

JacDouble(P, c) ==
    IF IsPanicPt(P) THEN JacPanic
    ELSE IF JacIsZeroPoint(P) THEN JacZeroPoint
    ELSE JacDoubleSM(P, MulMod(P.y, P.y, Curve(c).p), Curve(c).a, Curve(c).p)

\* add: u1, u2, s1, s2 from z1z1 and z2z2
JacAddUS(P, Q, z1z1, z2z2, p) ==
    [u1 |-> MulMod(P.x, z2z2, p),
     u2 |-> MulMod(Q.x, z1z1, p),
     s1 |-> MulMod(P.y, MulMod(Q.z, z2z2, p), p),
     s2 |-> MulMod(Q.y, MulMod(P.z, z1z1, p), p)]

\* add: the values compared by `if u1 == u2` and `if s1 != s2`
JacAddTerms(P, Q, p) == JacAddUS(P, Q, MulMod(P.z, P.z, p), MulMod(Q.z, Q.z, p), p)

\* add: x, y, z of the general case
JacAddXYZ(P, Q, s1, h, r, h3, v, x, p) ==
    MkJac(x,
          SubMod(MulMod(r, SubMod(v, x, p), p), MulMod(s1, h3, p), p),
          MulMod(MulMod(h, P.z, p), Q.z, p))

JacAddV(P, Q, s1, h, r, h3, v, p) ==
    JacAddXYZ(P, Q, s1, h, r, h3, v,
              SubMod(SubMod(MulMod(r, r, p), h3, p), MulMod(v, 2, p), p), p)

\* add: h3 = h2 * h and v = u1 * h2
JacAddH2(P, Q, u1, s1, h, r, h2, p) ==
    JacAddV(P, Q, s1, h, r, MulMod(h2, h, p), MulMod(u1, h2, p), p)

\* add: h2 = h * h
JacAddH(P, Q, u1, s1, h, r, p) == JacAddH2(P, Q, u1, s1, h, r, MulMod(h, h, p), p)

\* The branch add takes after its zero-point checks: "cancel" (u1 == u2 and
\* s1 != s2), "double" (u1 == u2 and s1 == s2) or "general".
JacAddTermsBranch(t) ==
    IF IsPanic(t.u1) \/ IsPanic(t.u2) \/ IsPanic(t.s1) \/ IsPanic(t.s2) THEN "panic"
    ELSE IF t.u1 = t.u2 THEN (IF t.s1 # t.s2 THEN "cancel" ELSE "double")
    ELSE "general"

\* An add whose two `u1 == u2` arms are exchanged: the variant C5 is compared
\* against.
JacAddFromSwapped(P, Q, t, c) ==
    IF JacAddTermsBranch(t) = "panic" THEN JacPanic
    ELSE IF t.u1 = t.u2
    THEN (IF t.s1 # t.s2 THEN JacDouble(P, c) ELSE JacZeroPoint)
    ELSE JacAddH(P, Q, t.u1, t.s1, SubMod(t.u2, t.u1, Curve(c).p),
                 SubMod(t.s2, t.s1, Curve(c).p), Curve(c).p)

\* add from `if u1 == u2` on
JacAddFrom(P, Q, t, c) ==
    IF JacAddTermsBranch(t) = "panic" THEN JacPanic
    ELSE IF t.u1 = t.u2
    THEN (IF t.s1 # t.s2 THEN JacZeroPoint ELSE JacDouble(P, c))
    ELSE JacAddH(P, Q, t.u1, t.s1, SubMod(t.u2, t.u1, Curve(c).p),
                 SubMod(t.s2, t.s1, Curve(c).p), Curve(c).p)

JacAdd(P, Q, c) ==
    IF IsPanicPt(P) \/ IsPanicPt(Q) THEN JacPanic
    ELSE IF JacIsZeroPoint(P) THEN Q
    ELSE IF JacIsZeroPoint(Q) THEN P
    ELSE JacAddFrom(P, Q, JacAddTerms(P, Q, Curve(c).p), c)

\* The branch JacobianPoint::add takes: "left_zero", "right_zero", "cancel",
\* "double" or "general".
JacAddBranch(P, Q, c) ==
    IF IsPanicPt(P) \/ IsPanicPt(Q) THEN "panic"
    ELSE IF JacIsZeroPoint(P) THEN "left_zero"
    ELSE IF JacIsZeroPoint(Q) THEN "right_zero"
    ELSE JacAddTermsBranch(JacAddTerms(P, Q, Curve(c).p))

\* `if bit == U256::one() { r = r.add(&self, curve) }`
JacLadderAdd(d, P, bit, c) == IF bit = 1 THEN JacAdd(d, P, c) ELSE d

\* One iteration of the while loop of JacobianPoint::multiply.
JacLadderStep(r, P, scalar, i, c) == JacLadderAdd(JacDouble(r, c), P, Bit(scalar, i), c)

RECURSIVE JacLadder(_, _, _, _, _)
JacLadder(r, P, scalar, i, c) ==
    IF i = -1 \/ IsPanicPt(r) THEN r
    ELSE JacLadder(JacLadderStep(r, P, scalar, i, c), P, scalar, i - 1, c)

JacMultiply(P, scalar, c) ==
    IF IsPanicPt(P) \/ IsPanic(scalar) THEN JacPanic
    ELSE IF P.y = 0 \/ scalar = 0 THEN JacZeroPoint
    ELSE IF scalar = 1 THEN P
    ELSE JacLadder(JacZeroPoint, P, scalar, W - 1, c)

\* from_jacobian: x = x * zz and y = y * (zz * z)
FromJacobianZZ(P, z, zz, p) == MkAff(MulMod(P.x, zz, p), MulMod(P.y, MulMod(zz, z, p), p))

\* from_jacobian: zz = z * z, with z = 1 / self.z
FromJacobianZ(P, z, p) == FromJacobianZZ(P, z, MulMod(z, z, p), p)

\* A from_jacobian that refuses z = 0 (the code inverts it to 0): the variant
\* C20 is compared against.
FromJacobianChecked(P, c) ==
    IF IsPanicPt(P) THEN AffPanic
    ELSE IF Rem(P.z, Curve(c).p) = 0 THEN AffPanic
    ELSE FromJacobianZ(P, DivMod(1, P.z, Curve(c).p), Curve(c).p)

\* JacobianPoint::from_jacobian
FromJacobian(P, c) ==
    IF IsPanicPt(P) THEN AffPanic
    ELSE FromJacobianZ(P, DivMod(1, P.z, Curve(c).p), Curve(c).p)

-----------------------------------------------------------------------------
(* signature.rs *)

V27 == 27
V28 == 28

SigPanic == [r |-> PANIC, s |-> PANIC, v |-> PANIC]

MkSig(r, s, v) ==
    IF IsPanic(r) \/ IsPanic(s) \/ IsPanic(v) THEN SigPanic
    ELSE [r |-> r, s |-> s, v |-> v]

IsPanicSig(sig) == IsPanic(sig.r)

\* PrivateKey::to_pub_key
ToPubKey(d, c) == FromJacobian(JacMultiply(ToJacobian(G(c)), d, c), c)

\* raw_sign: the nonce point k * G
EncodedNonce(nonce, c) == FromJacobian(JacMultiply(ToJacobian(G(c)), nonce, c), c)

\* raw_sign: `let mut s`, the value before the low-order replacement
RawSignS(d, msg_hash, nonce, r, n) ==
    DivMod(AddMod(msg_hash, MulMod(r, d, n), n), nonce, n)

\* A raw_sign that flips v but keeps the high s: the variant C3 is compared
\* against.
RawSignLowSKeep(encoded_nonce, s, c) ==
    IF IsPanicPt(encoded_nonce) \/ IsPanic(s) THEN SigPanic
    ELSE IF s <= Curve(c).n_div_2
    THEN MkSig(encoded_nonce.x, s,
               IF encoded_nonce.y % 2 = 0 THEN V27 ELSE AddMod(V27, 1, Curve(c).n))
    ELSE MkSig(encoded_nonce.x, s,
               IF encoded_nonce.y % 2 = 0 THEN AddMod(V27, 1, Curve(c).n) ELSE V27)

\* raw_sign: `if s <= T::n_div_2()` and both of its arms
RawSignLowS(encoded_nonce, s, c) ==
    IF IsPanicPt(encoded_nonce) \/ IsPanic(s) THEN SigPanic
    ELSE IF s <= Curve(c).n_div_2
    THEN MkSig(encoded_nonce.x, s,
               IF encoded_nonce.y % 2 = 0 THEN V27 ELSE AddMod(V27, 1, Curve(c).n))
    ELSE MkSig(encoded_nonce.x, SubMod(Curve(c).n, s, Curve(c).n),
               IF encoded_nonce.y % 2 = 0 THEN AddMod(V27, 1, Curve(c).n) ELSE V27)

RawSignNonce(d, msg_hash, nonce, encoded_nonce, c) ==
    RawSignLowS(encoded_nonce,
                RawSignS(d, msg_hash, nonce, encoded_nonce.x, Curve(c).n), c)

\* PrivateKey::raw_sign
RawSign(d, msg_hash, nonce, c) ==
    RawSignNonce(d, msg_hash, nonce, EncodedNonce(nonce, c), c)

\* A raw_verify that rejects r = 0 (the code has no such check): the variant
\* C22 is compared against.
RawVerifyEqNonZero(sig, res) ==
    IF IsPanicPt(res) THEN "panic"
    ELSE IF sig.r = 0 THEN "false"
    ELSE IF res.x = sig.r THEN "true" ELSE "false"

\* raw_verify: `c.from_jacobian(curve).x == self.r`
RawVerifyEq(sig, res) ==
    IF IsPanicPt(res) THEN "panic"
    ELSE IF res.x = sig.r THEN "true" ELSE "false"

\* A raw_verify that refuses an s above n_div_2 before it computes anything.
RawVerifyCanonical(sig, msg_hash, pub_key, c) ==
    IF sig.s > Curve(c).n_div_2 THEN "false"
    ELSE RawVerifyEq(sig,
        FromJacobian(
            JacAdd(JacMultiply(ToJacobian(G(c)), DivMod(msg_hash, sig.s, Curve(c).n), c),
                   JacMultiply(ToJacobian(pub_key), DivMod(sig.r, sig.s, Curve(c).n), c),
                   c),
            c))

\* Signature::raw_verify: "true", "false", or "panic"
RawVerify(sig, msg_hash, pub_key, c) ==
    RawVerifyEq(sig,
        FromJacobian(
            JacAdd(JacMultiply(ToJacobian(G(c)), DivMod(msg_hash, sig.s, Curve(c).n), c),
                   JacMultiply(ToJacobian(pub_key), DivMod(sig.r, sig.s, Curve(c).n), c),
                   c),
            c))

\* What raw_recover hands back: the key, or the assertion that stopped it.
Aborted(why) == [abort |-> why, key |-> AffPanic]
Returned(key) == [abort |-> IF IsPanicPt(key) THEN "panic" ELSE "none", key |-> key]

\* raw_recover: x_cubed_ax_b
RecoverRhs(r, c) ==
    AddMod(AddMod(ExpMod(r, 3, Curve(c).p), MulMod(Curve(c).a, r, Curve(c).p), Curve(c).p),
           Curve(c).b, Curve(c).p)

\* A choice of y with the parities exchanged: the variant C18 is compared
\* against.
RecoverYSwapped(v, possible_y, p) ==
    IF IsPanic(possible_y) THEN PANIC
    ELSE IF (v % 2 = 1) # (possible_y % 2 = 1)
    THEN SubMod(p, possible_y, p)
    ELSE possible_y

\* raw_recover: the choice of y between possible_y and p - possible_y
RecoverY(v, possible_y, p) ==
    IF IsPanic(possible_y) THEN PANIC
    ELSE IF (v % 2 = 1) # (possible_y % 2 = 1)
    THEN possible_y
    ELSE SubMod(p, possible_y, p)

\* A raw_recover without the `r % n or s % n is 0` assertion: the variant C9 is
\* compared against.
RawRecoverYUnchecked(sig, msg_hash, x_cubed_ax_b, y, c) ==
    IF IsPanic(y) THEN Aborted("panic")
    ELSE IF SubMod(x_cubed_ax_b, MulMod(y, y, Curve(c).p), Curve(c).p) # 0
    THEN Aborted("sig invalid, r cannot be x coordinate of a point of the curve")
    ELSE Returned(
        FromJacobian(
            JacMultiply(
                JacAdd(JacMultiply(ToJacobian([x |-> sig.r, y |-> y]), sig.s, c),
                       JacMultiply(ToJacobian(G(c)),
                                   SubMod(Curve(c).n, msg_hash, Curve(c).n), c),
                       c),
                DivMod(1, sig.r, Curve(c).n), c),
            c))

\* raw_recover from the assert_eq! on
RawRecoverY(sig, msg_hash, x_cubed_ax_b, y, c) ==
    IF IsPanic(y) THEN Aborted("panic")
    ELSE IF SubMod(x_cubed_ax_b, MulMod(y, y, Curve(c).p), Curve(c).p) # 0
    THEN Aborted("sig invalid, r cannot be x coordinate of a point of the curve")
    ELSE IF ~(sig.r % Curve(c).n # 0 /\ sig.s % Curve(c).n # 0)
    THEN Aborted("r % n or s % n is 0")
    ELSE Returned(
        FromJacobian(
            JacMultiply(
                JacAdd(JacMultiply(ToJacobian([x |-> sig.r, y |-> y]), sig.s, c),
                       JacMultiply(ToJacobian(G(c)),
                                   SubMod(Curve(c).n, msg_hash, Curve(c).n), c),
                       c),
                DivMod(1, sig.r, Curve(c).n), c),
            c))

\* raw_recover from x_cubed_ax_b on: possible_y and y
RawRecoverRhs(sig, msg_hash, x_cubed_ax_b, c) ==
    RawRecoverY(sig, msg_hash, x_cubed_ax_b,
                RecoverY(sig.v, ExpMod(x_cubed_ax_b, Curve(c).sqrt_exp_num, Curve(c).p),
                         Curve(c).p),
                c)

\* Signature::raw_recover
RawRecover(sig, msg_hash, c) ==
    IF ~(sig.v = V27 \/ sig.v = V28) THEN Aborted("invalid V")
    ELSE RawRecoverRhs(sig, msg_hash, RecoverRhs(sig.r, c), c)

-----------------------------------------------------------------------------
(* State *)

VARIABLES
    curve,       \* the curve type parameter T of the calls: "K1" or "R1"
    \* sign / verify / recover (signature.rs, lib.rs)
    pc,          \* position of the caller
    priv,        \* PrivateKey.0
    pub_key,     \* the public key handed to raw_verify
    msg_hash,    \* the message hash
    nonce,       \* the nonce handed to raw_sign
    sig,         \* the Signature {r, s, v}
    verified,    \* result of raw_verify: "none", "true", "false", "panic"
    recovered,   \* result of raw_recover: [abort, key]
    tamper,      \* raw_verify on a changed input: [what, bit, verified]
    \* scalar multiplication, one loop iteration per step (affine.rs, jacobian.rs)
    scalar,      \* the scalar of both multiply calls
    jac_pc,      \* JacobianPoint::multiply: "entry", "loop", "done", "panic", "idle"
    jac_i,       \* its loop counter i
    jac_r,       \* its accumulator r
    jac_branch,  \* the branch the last add of the loop took ("none" before one)
    aff_pc,      \* ECAffinePoint::multiply: "wait", "entry", "loop", "done", "panic", "idle"
    aff_i,       \* its loop counter i
    aff_r,       \* its accumulator r
    \* modular arithmetic (ru256.rs)
    fop,         \* the operation: "add_mod", "sub_mod", "mul_mod", "exp_mod", "div_mod"
    fa, fb, fm,  \* its operands self, b (or e) and the modulus p
    fres,        \* its result (PANIC on a panic)
    fpc,         \* "call" before the operation runs, "ret" after, "idle"
    \* one point operation on given points (affine.rs, jacobian.rs)
    pop,         \* the operation: "aff_add", "jac_add", "jac_double"
    pP, pQ,      \* self and other
    pres,        \* its result (a panic point on a panic)
    ppc          \* "call" before the operation runs, "ret" after, "idle"

ecdsaVars == <<pc, priv, pub_key, msg_hash, nonce, sig, verified, recovered, tamper>>
ladderVars == <<scalar, jac_pc, jac_i, jac_r, jac_branch, aff_pc, aff_i, aff_r>>
fieldVars == <<fop, fa, fb, fm, fres, fpc>>
pointVars == <<pop, pP, pQ, pres, ppc>>
vars == <<curve, ecdsaVars, ladderVars, fieldVars, pointVars>>

NoPoint == [x |-> 0, y |-> 0]
NoSig == [r |-> 0, s |-> 0, v |-> 0]
NotRecovered == [abort |-> "not called", key |-> NoPoint]
NoTamper == [what |-> "none", bit |-> 0, verified |-> "none"]

EcdsaIdle ==
    /\ pc = "idle" /\ priv = 0 /\ pub_key = NoPoint /\ msg_hash = 0 /\ nonce = 0
    /\ sig = NoSig /\ verified = "none" /\ recovered = NotRecovered
    /\ tamper = NoTamper

LadderIdle ==
    /\ scalar = 0 /\ jac_pc = "idle" /\ jac_i = 0 /\ jac_r = JacZeroPoint
    /\ jac_branch = "none" /\ aff_pc = "idle" /\ aff_i = 0 /\ aff_r = AffZeroPoint

FieldIdle ==
    /\ fop = "idle" /\ fa = 0 /\ fb = 0 /\ fm = 0 /\ fres = 0 /\ fpc = "idle"

PointIdle ==
    /\ pop = "idle" /\ pP = NoPoint /\ pQ = NoPoint /\ pres = NoPoint /\ ppc = "idle"

-----------------------------------------------------------------------------
(* Scalar multiplication of the generator, affine and Jacobian, step by step *)

\* Every scalar up to and including the group order n.
Scalars(c) == 0..Curve(c).n

LadderInit ==
    /\ curve \in Curves
    /\ scalar \in Scalars(curve)
    /\ jac_pc = "entry" /\ jac_i = W - 1 /\ jac_r = JacZeroPoint /\ jac_branch = "none"
    /\ aff_pc = "wait" /\ aff_i = W - 1 /\ aff_r = AffZeroPoint
    /\ EcdsaIdle /\ FieldIdle /\ PointIdle

\* JacobianPoint::multiply, the early returns and `let mut r = Self::zero_point()`
JacEnter ==
    /\ jac_pc = "entry"
    /\ LET P == ToJacobian(G(curve))
       IN IF P.y = 0 \/ scalar = 0
          THEN jac_pc' = "done" /\ jac_r' = JacZeroPoint
          ELSE IF scalar = 1
          THEN jac_pc' = "done" /\ jac_r' = P
          ELSE jac_pc' = "loop" /\ jac_r' = JacZeroPoint
    /\ UNCHANGED <<curve, scalar, jac_i, jac_branch, aff_pc, aff_i, aff_r>>
    /\ UNCHANGED <<ecdsaVars, fieldVars, pointVars>>

\* one iteration of `while i != -1`
JacStep ==
    /\ jac_pc = "loop" /\ jac_i # -1
    /\ LET P == ToJacobian(G(curve))
           d == JacDouble(jac_r, curve)
           r == JacLadderStep(jac_r, P, scalar, jac_i, curve)
       IN /\ jac_r' = r
          /\ jac_pc' = IF IsPanicPt(r) THEN "panic" ELSE "loop"
          /\ jac_branch' = IF Bit(scalar, jac_i) = 1
                           THEN JacAddBranch(d, P, curve) ELSE jac_branch
    /\ jac_i' = jac_i - 1
    /\ UNCHANGED <<curve, scalar, aff_pc, aff_i, aff_r>>
    /\ UNCHANGED <<ecdsaVars, fieldVars, pointVars>>

\* the loop ends and r is returned
JacExit ==
    /\ jac_pc = "loop" /\ jac_i = -1
    /\ jac_pc' = "done"
    /\ UNCHANGED <<curve, scalar, jac_i, jac_r, jac_branch, aff_pc, aff_i, aff_r>>
    /\ UNCHANGED <<ecdsaVars, fieldVars, pointVars>>

\* The affine call is made once the Jacobian call has ended.
AffStart ==
    /\ aff_pc = "wait" /\ jac_pc \in {"done", "panic"}
    /\ aff_pc' = "entry"
    /\ UNCHANGED <<curve, scalar, jac_pc, jac_i, jac_r, jac_branch, aff_i, aff_r>>
    /\ UNCHANGED <<ecdsaVars, fieldVars, pointVars>>

\* ECAffinePoint::multiply, the early returns and `let mut r = Self::zero_point()`
AffEnter ==
    /\ aff_pc = "entry"
    /\ LET P == G(curve)
       IN IF P.y = 0 \/ scalar = 0
          THEN aff_pc' = "done" /\ aff_r' = AffZeroPoint
          ELSE IF scalar = 1
          THEN aff_pc' = "done" /\ aff_r' = P
          ELSE aff_pc' = "loop" /\ aff_r' = AffZeroPoint
    /\ UNCHANGED <<curve, scalar, jac_pc, jac_i, jac_r, jac_branch, aff_i>>
    /\ UNCHANGED <<ecdsaVars, fieldVars, pointVars>>

AffStep ==
    /\ aff_pc = "loop" /\ aff_i # -1
    /\ LET r == AffLadderStep(aff_r, G(curve), scalar, aff_i, curve)
       IN /\ aff_r' = r
          /\ aff_pc' = IF IsPanicPt(r) THEN "panic" ELSE "loop"
    /\ aff_i' = aff_i - 1
    /\ UNCHANGED <<curve, scalar, jac_pc, jac_i, jac_r, jac_branch>>
    /\ UNCHANGED <<ecdsaVars, fieldVars, pointVars>>

AffExit ==
    /\ aff_pc = "loop" /\ aff_i = -1
    /\ aff_pc' = "done"
    /\ UNCHANGED <<curve, scalar, jac_pc, jac_i, jac_r, jac_branch, aff_i, aff_r>>
    /\ UNCHANGED <<ecdsaVars, fieldVars, pointVars>>

LadderNext ==
    \/ JacEnter \/ JacStep \/ JacExit
    \/ AffStart \/ AffEnter \/ AffStep \/ AffExit

SpecLadder == LadderInit /\ [][LadderNext]_vars

-----------------------------------------------------------------------------
(* Key generation, signing, verification and recovery (lib.rs, signature.rs) *)

MaxKey == 2
MaxNonce == 11
MaxHash == 2

\* Small words and the largest word (a key, a nonce and a hash above n).
Keys == (0..MaxKey) \cup {MAXU}
Nonces == (0..MaxNonce) \cup {MAXU}
Hashes == (0..MaxHash) \cup {MAXU}

\* PrivateKey::new(key)
EcdsaInit ==
    /\ curve \in Curves
    /\ priv \in Keys
    /\ pc = "new"
    /\ pub_key = NoPoint /\ msg_hash = 0 /\ nonce = 0
    /\ sig = NoSig /\ verified = "none" /\ recovered = NotRecovered
    /\ tamper = NoTamper
    /\ LadderIdle /\ FieldIdle /\ PointIdle

\* priv_key.to_pub_key(&curve)
KeyGen ==
    /\ pc = "new"
    /\ pub_key' = ToPubKey(priv, curve)
    /\ pc' = "keyed"
    /\ UNCHANGED <<curve, priv, msg_hash, nonce, sig, verified, recovered, tamper>>
    /\ UNCHANGED <<ladderVars, fieldVars, pointVars>>

\* priv_key.raw_sign(&msg_hash, &nonce, &curve)
Sign ==
    /\ pc = "keyed"
    /\ \E h \in Hashes, k \in Nonces :
          /\ msg_hash' = h
          /\ nonce' = k
          /\ sig' = RawSign(priv, h, k, curve)
    /\ pc' = "signed"
    /\ UNCHANGED <<curve, priv, pub_key, verified, recovered, tamper>>
    /\ UNCHANGED <<ladderVars, fieldVars, pointVars>>

\* sig.raw_verify(&msg_hash, &pub_key, &curve)
Verify ==
    /\ pc = "signed"
    /\ verified' = RawVerify(sig, msg_hash, pub_key, curve)
    /\ pc' = "verified"
    /\ UNCHANGED <<curve, priv, pub_key, msg_hash, nonce, sig, recovered, tamper>>
    /\ UNCHANGED <<ladderVars, fieldVars, pointVars>>

\* sig.raw_recover(&msg_hash, &curve)
Recover ==
    /\ pc = "verified"
    /\ recovered' = RawRecover(sig, msg_hash, curve)
    /\ pc' = "recovered"
    /\ UNCHANGED <<curve, priv, pub_key, msg_hash, nonce, sig, verified, tamper>>
    /\ UNCHANGED <<ladderVars, fieldVars, pointVars>>

EcdsaNext == KeyGen \/ Sign \/ Verify \/ Recover

SpecEcdsa == EcdsaInit /\ [][EcdsaNext]_vars

-----------------------------------------------------------------------------
(* raw_verify and raw_recover on a signature, hash and key from anywhere *)

MaxWord == 3

\* Words a caller may pass: small ones, the group order, the largest word.
AnyWords(c) == (0..MaxWord) \cup {Curve(c).n, MAXU}
AnyV == {V27 - 1, V27, V28, V28 + 1}
AnyHashes == {0, MAXU}
AnyKeys(c) == {AffZeroPoint, G(c), [x |-> 1, y |-> 1], [x |-> MAXU, y |-> 0]}

AnyInit ==
    /\ curve \in Curves
    /\ sig \in [r : AnyWords(curve), s : AnyWords(curve), v : AnyV]
    /\ msg_hash \in AnyHashes
    /\ pub_key \in AnyKeys(curve)
    /\ pc = "signed"
    /\ priv = 0 /\ nonce = 0 /\ verified = "none" /\ recovered = NotRecovered
    /\ tamper = NoTamper
    /\ LadderIdle /\ FieldIdle /\ PointIdle

AnyNext == Verify \/ Recover

SpecAny == AnyInit /\ [][AnyNext]_vars

-----------------------------------------------------------------------------
(* raw_verify on a signature or hash with one bit changed after signing *)

MaxTamperKey == 4
MaxTamperNonce == 3
MaxTamperHash == 1

TamperKeys == 1..MaxTamperKey
TamperNonces == 1..MaxTamperNonce
TamperHashes == 0..MaxTamperHash
TamperFields == {"r", "s", "h"}

\* The word x with bit number i (0 the lowest) inverted.
FlipBit(x, i) ==
    IF (x \div (2 ^ i)) % 2 = 1 THEN x - 2 ^ i ELSE x + 2 ^ i

\* The signature and the hash handed to raw_verify after the change.
TamperedSig(s, what, i) ==
    IF what = "r" THEN [s EXCEPT !.r = FlipBit(s.r, i)]
    ELSE IF what = "s" THEN [s EXCEPT !.s = FlipBit(s.s, i)]
    ELSE s

TamperedHash(h, what, i) == IF what = "h" THEN FlipBit(h, i) ELSE h

\* The caller holds a key pair and the signature raw_sign returned.
TamperInit ==
    /\ curve \in Curves
    /\ priv \in TamperKeys
    /\ nonce \in TamperNonces
    /\ msg_hash \in TamperHashes
    /\ pub_key = ToPubKey(priv, curve)
    /\ sig = RawSign(priv, msg_hash, nonce, curve)
    /\ pc = "signed"
    /\ verified = "none" /\ recovered = NotRecovered /\ tamper = NoTamper
    /\ LadderIdle /\ FieldIdle /\ PointIdle

\* raw_verify called again with one bit of r, of s or of msg_hash inverted.
TamperVerify ==
    /\ pc = "verified"
    /\ \E what \in TamperFields, i \in 0..(W - 1) :
          tamper' = [what |-> what, bit |-> i,
                     verified |-> RawVerify(TamperedSig(sig, what, i),
                                            TamperedHash(msg_hash, what, i),
                                            pub_key, curve)]
    /\ pc' = "tampered"
    /\ UNCHANGED <<curve, priv, pub_key, msg_hash, nonce, sig, verified, recovered>>
    /\ UNCHANGED <<ladderVars, fieldVars, pointVars>>

TamperNext == Verify \/ TamperVerify

SpecTamper == TamperInit /\ [][TamperNext]_vars

-----------------------------------------------------------------------------
(* One add or double on points from anywhere (affine.rs, jacobian.rs) *)

MaxCoord == 2
MaxY == 2
MaxZ == 3

PointOps == {"aff_add", "jac_add", "jac_double"}

\* Affine points with any words as coordinates, on the curve or not: the
\* smallest words, the largest, and the generator's coordinates.
AffCoords(c) == (0..MaxCoord) \cup {Curve(c).gx, Curve(c).gy, MAXU}
AffInputs(c) == [x : AffCoords(c), y : AffCoords(c)]

\* The points of the curve whose y is the generator's, its negative, or small.
CurveYs(c) == {Curve(c).gy, Curve(c).p - Curve(c).gy} \cup (1..MaxY)
CurvePointsAt(c, ys) ==
    {P \in [x : 0..(Curve(c).p - 1), y : ys] :
        (P.y * P.y) % Curve(c).p
            = (P.x * P.x * P.x + Curve(c).a * P.x + Curve(c).b) % Curve(c).p}
CurvePoints(c) == CurvePointsAt(c, CurveYs(c))

\* The Jacobian point (x * z^2, y * z^3, z) that stands for the affine (x, y).
JacRep(P, z, p) == [x |-> (P.x * z * z) % p, y |-> (P.y * z * z * z) % p, z |-> z]
JacInputs(c) == {JacRep(P, z, Curve(c).p) : P \in CurvePoints(c), z \in 1..MaxZ}

\* What double is given: any point of the curve, the identity, or a point
\* with y = 0.
DoubleInputs(c) ==
    CurvePointsAt(c, 0..(Curve(c).p - 1)) \cup {AffZeroPoint}
        \cup {[x |-> x, y |-> 0] : x \in (1..MaxCoord) \cup {Curve(c).gx}}

\* The point (x, p - y) for a point (x, y) with 0 < y < p.
AffNeg(P, c) == [x |-> P.x, y |-> Curve(c).p - P.y]

\* The first operand of add(P, -P): any point of the curve, or a point off the
\* curve with small coordinates, with y # 0.
NegInputs(c) ==
    CurvePointsAt(c, 1..(Curve(c).p - 1))
        \cup [x : 0..MaxCoord, y : 1..MaxCoord]

PointInit ==
    /\ curve \in Curves
    /\ pop \in PointOps
    /\ \/ pop = "aff_add" /\ pP \in AffInputs(curve) /\ pQ \in AffInputs(curve)
       \/ pop = "aff_add" /\ pP \in NegInputs(curve) /\ pQ = AffNeg(pP, curve)
       \/ pop = "jac_add" /\ pP \in JacInputs(curve) /\ pQ \in JacInputs(curve)
       \/ pop = "jac_double" /\ pP \in DoubleInputs(curve) /\ pQ = NoPoint
    /\ pres = NoPoint /\ ppc = "call"
    /\ EcdsaIdle /\ LadderIdle /\ FieldIdle

PointRet(v) ==
    /\ ppc = "call"
    /\ pres' = v
    /\ ppc' = "ret"
    /\ UNCHANGED <<curve, pop, pP, pQ>>
    /\ UNCHANGED <<ecdsaVars, ladderVars, fieldVars>>

\* self.add(&other, &curve) on affine points
CallAffAdd == pop = "aff_add" /\ PointRet(AffAdd(pP, pQ, curve))

\* self.add(&other, &curve) on Jacobian points
CallJacAdd == pop = "jac_add" /\ PointRet(JacAdd(pP, pQ, curve))

\* p.to_jacobian().double(&curve)
CallJacDouble == pop = "jac_double" /\ PointRet(JacDouble(ToJacobian(pP), curve))

PointNext == CallAffAdd \/ CallJacAdd \/ CallJacDouble

SpecPoint == PointInit /\ [][PointNext]_vars

-----------------------------------------------------------------------------
(* The modular operations on operands and moduli from anywhere (ru256.rs) *)

MaxOperand == 3
MaxModulus == 4

\* The smallest and the largest words.
Operands == (0..MaxOperand) \cup ((MAXU - MaxOperand)..MAXU)
Moduli == (0..MaxModulus) \cup ((MAXU - MaxModulus)..MAXU) \cup {K1.p, K1.n, R1.p, R1.n}
FieldOps == {"add_mod", "sub_mod", "mul_mod", "exp_mod", "div_mod"}

FieldInit ==
    /\ fop \in FieldOps
    /\ fa \in Operands /\ fb \in Operands /\ fm \in Moduli
    /\ fres = 0 /\ fpc = "call"
    /\ curve = "K1" /\ EcdsaIdle /\ LadderIdle /\ PointIdle

FieldRet(v) ==
    /\ fres' = v
    /\ fpc' = "ret"
    /\ UNCHANGED <<curve, fop, fa, fb, fm>>
    /\ UNCHANGED <<ecdsaVars, ladderVars, pointVars>>

CallAddMod == fpc = "call" /\ fop = "add_mod" /\ FieldRet(AddMod(fa, fb, fm))
CallSubMod == fpc = "call" /\ fop = "sub_mod" /\ FieldRet(SubMod(fa, fb, fm))
CallMulMod == fpc = "call" /\ fop = "mul_mod" /\ FieldRet(MulMod(fa, fb, fm))
CallExpMod == fpc = "call" /\ fop = "exp_mod" /\ FieldRet(ExpMod(fa, fb, fm))
CallDivMod == fpc = "call" /\ fop = "div_mod" /\ FieldRet(DivMod(fa, fb, fm))

FieldNext == CallAddMod \/ CallSubMod \/ CallMulMod \/ CallExpMod \/ CallDivMod

SpecField == FieldInit /\ [][FieldNext]_vars

-----------------------------------------------------------------------------
(* Properties *)

\* The domain of the round trips: private key and nonce in [1, n).
InDomain ==
    /\ priv \in 1..(Curve(curve).n - 1)
    /\ nonce \in 1..(Curve(curve).n - 1)

\* C1: for every curve, private key d in [1,n), hash h and nonce k in [1,n),
\* raw_verify of the signature raw_sign returned, under the key to_pub_key
\* returned, is true.
C1_SignVerifyRoundTrip ==
    (pc \in {"verified", "recovered"} /\ InDomain) => verified = "true"

\* A triple of the domain whose s is 0 and whose signature raw_verify rejects.
C1_ZeroSRejected ==
    /\ pc = "verified" /\ InDomain
    /\ sig.s = 0
    /\ verified = "false"

\* C2: for every curve, private key d in [1,n), hash h and nonce k in [1,n),
\* raw_recover of the signature raw_sign returned completes without aborting
\* and returns the point to_pub_key returns.
C2_SignRecoverRoundTrip ==
    (pc = "recovered" /\ InDomain) =>
        (recovered.abort = "none" /\ recovered.key = pub_key)

\* A triple of the domain whose s is 0 and on whose signature raw_recover stops
\* at its last assertion.
C2_ZeroSAborts ==
    /\ pc = "recovered" /\ InDomain
    /\ sig.s = 0
    /\ recovered.abort = "r % n or s % n is 0"

\* C3: for every private key, hash and nonce, the signature raw_sign returns
\* has s <= n_div_2 = floor(n / 2), and when the s first computed exceeds
\* n_div_2 the s returned is n minus it.
C3_LowS ==
    pc \in {"signed", "verified", "recovered"} =>
        /\ ~IsPanicSig(sig)
        /\ Curve(curve).n_div_2 = Curve(curve).n \div 2
        /\ sig.s <= Curve(curve).n_div_2
        /\ LET s0 == RawSignS(priv, msg_hash, nonce, sig.r, Curve(curve).n)
           IN s0 > Curve(curve).n_div_2 => sig.s = Curve(curve).n - s0

\* A signature whose first s was above n_div_2 and was replaced.
C3_Replaced ==
    /\ pc = "signed"
    /\ RawSignS(priv, msg_hash, nonce, sig.r, Curve(curve).n) > Curve(curve).n_div_2
    /\ sig.s > 0
    /\ sig.s <= Curve(curve).n_div_2

\* C4: for every curve and scalar k in [0,n), the affine multiply of G by k
\* returns a point, and that point is the Jacobian multiply of G by k
\* converted with from_jacobian.
C4_AffineEqualsJacobian ==
    (aff_pc \in {"done", "panic"} /\ scalar < Curve(curve).n) =>
        /\ aff_pc = "done"
        /\ jac_pc = "done"
        /\ aff_r = FromJacobian(jac_r, curve)

\* A scalar below n at which the affine multiply stops in add's assertion
\* while the Jacobian multiply returned a point.
C4_AffineAborts ==
    /\ aff_pc = "panic" /\ jac_pc = "done"
    /\ scalar < Curve(curve).n
    /\ ~IsPanicPt(FromJacobian(jac_r, curve))

\* The negation of the generator.
NegG(c) == [x |-> Curve(c).gx, y |-> Curve(c).p - Curve(c).gy]

\* C5: for every curve, the Jacobian multiply of G by n converts to (0,0), and
\* its last loop iteration adds (n-1)*G and G through the u1 == u2, s1 != s2
\* branch of add.
C5_JacobianOrder ==
    /\ (jac_pc = "loop" /\ jac_i = 0 /\ scalar = Curve(curve).n) =>
          /\ FromJacobian(JacDouble(jac_r, curve), curve) = NegG(curve)
          /\ JacAddBranch(JacDouble(jac_r, curve), ToJacobian(G(curve)), curve) = "cancel"
    /\ (jac_pc = "done" /\ scalar = Curve(curve).n) =>
          /\ jac_branch = "cancel"
          /\ FromJacobian(jac_r, curve) = AffZeroPoint

\* The Jacobian multiply by n has returned.
C5_Returned ==
    /\ jac_pc = "done" /\ scalar = Curve(curve).n
    /\ jac_i = -1
    /\ JacIsZeroPoint(jac_r)

\* C6: for every curve, the affine multiply of G by n returns (0,0).
C6_AffineOrder ==
    (aff_pc \in {"done", "panic"} /\ scalar = Curve(curve).n) =>
        (aff_pc = "done" /\ aff_r = AffZeroPoint)

\* The affine multiply by n has returned a point that is not (0,0), after a
\* last iteration that added -G and G.
C6_NotIdentity ==
    /\ aff_pc = "done" /\ scalar = Curve(curve).n
    /\ aff_i = -1
    /\ ~AffIsZeroPoint(aff_r)

\* C7: for every signature (r, s, v any words, 0 and values >= n included),
\* hash and public-key pair ((0,0), pairs off the curve and coordinates >= p
\* included), raw_verify returns a boolean.
C7_VerifyReturns ==
    pc \in {"verified", "recovered"} => verified \in {"true", "false"}

\* raw_verify has returned on s = 0, r the largest word, and a key off the
\* curve with a coordinate above p.
C7_Degenerate ==
    /\ pc = "verified"
    /\ sig.s = 0 /\ sig.r = MAXU
    /\ pub_key = [x |-> MAXU, y |-> 0]
    /\ verified = "false"

\* r is not the x coordinate of a point of the curve.
NotOnCurve(r, c) ==
    \A y \in 0..(Curve(c).p - 1) :
        (y * y) % Curve(c).p # (r * r * r + Curve(c).a * r + Curve(c).b) % Curve(c).p

\* C8: when r is not the x coordinate of a curve point (the y rebuilt from
\* (r, v) fails r^3 + a*r + b - y^2 = 0 mod p), raw_recover hands a result
\* to its caller and does not abort.
C8_RecoverFailsAsValue ==
    (pc = "recovered" /\ sig.v \in {V27, V28} /\ NotOnCurve(sig.r, curve)) =>
        recovered.abort = "none"

\* raw_recover has stopped in its assert_eq! on an r off the curve.
C8_Aborts ==
    /\ pc = "recovered" /\ sig.v \in {V27, V28} /\ NotOnCurve(sig.r, curve)
    /\ recovered.abort = "sig invalid, r cannot be x coordinate of a point of the curve"

\* The assertions of raw_recover.
RecoverAssertions ==
    {"invalid V",
     "sig invalid, r cannot be x coordinate of a point of the curve",
     "r % n or s % n is 0"}

\* C9: raw_recover returns no key when v is neither 0x1b nor 0x1c, or
\* r mod n = 0, or s mod n = 0: the call stops in an assertion.
C9_PreconditionsFatal ==
    (/\ pc = "recovered"
     /\ \/ sig.v \notin {V27, V28}
        \/ sig.r % Curve(curve).n = 0
        \/ sig.s % Curve(curve).n = 0) =>
        (recovered.abort \in RecoverAssertions /\ recovered.key = AffPanic)

\* raw_recover has stopped in its last assertion on a valid v, an r on the
\* curve that is not 0 mod n, and s = n.
C9_ZeroSModN ==
    /\ pc = "recovered"
    /\ sig.v = V28 /\ sig.r % Curve(curve).n # 0 /\ sig.s = Curve(curve).n
    /\ recovered.abort = "r % n or s % n is 0"

\* C10: for every modulus p >= 1 and all operands, add_mod, sub_mod, mul_mod
\* and exp_mod, and div_mod when p > 2, return a value in [0, p).
C10_Reduced ==
    (fpc = "ret" /\ fm >= 1 /\ (fop = "div_mod" => fm > 2)) =>
        (fres >= 0 /\ fres < fm)

\* exp_mod has returned 1 for exponent 0 and modulus 1.
C10_ExpZeroModOne ==
    /\ fpc = "ret" /\ fop = "exp_mod"
    /\ fb = 0 /\ fm = 1
    /\ fres = 1

\* C11: for every modulus p in [1, 2^w) and all words a, b, add_mod(a, b, p)
\* is (a + b) mod p over the unbounded integers, also when
\* (a mod p) + (b mod p) >= 2^w, and no checked operation inside it fails.
C11_AddModExact ==
    (fpc = "ret" /\ fop = "add_mod" /\ fm >= 1) =>
        (~IsPanic(fres) /\ fres = (fa + fb) % fm)

\* add_mod has returned the exact sum on operands whose reduced sum overflows
\* the word.
C11_Overflowed ==
    /\ fpc = "ret" /\ fop = "add_mod" /\ fm >= 1
    /\ (fa % fm) + (fb % fm) >= Pow2W
    /\ fres = (fa + fb) % fm

\* C12: for every p >= 1 and all a, b, mul_mod(a, b, p) is (a * b) mod p, and
\* so mul_mod(a, b, p) = mul_mod(b, a, p).
C12_MulModExact ==
    (fpc = "ret" /\ fop = "mul_mod" /\ fm >= 1) =>
        /\ fres = (fa * fb) % fm
        /\ MulMod(fb, fa, fm) = fres

\* mul_mod has returned the product of two distinct operands above the
\* modulus, neither a multiple of it.
C12_Multiplied ==
    /\ fpc = "ret" /\ fop = "mul_mod"
    /\ fm > 2 /\ fa > fm /\ fb > fm /\ fa % fm # fb % fm
    /\ fres = (fa * fb) % fm /\ fres # 0

\* b^e mod p by repeated squaring on the halved exponent.
RECURSIVE PowMod(_, _, _)
PowMod(b, e, p) ==
    IF e = 0 THEN 1 % p
    ELSE (PowMod((b * b) % p, e \div 2, p) * (IF e % 2 = 1 THEN b % p ELSE 1)) % p

\* C13: for every p > 1, base b and exponent e (unreduced, also e >= p),
\* exp_mod(b, e, p) is b^e mod p, and exp_mod(b, 0, p) is 1.
C13_ExpModExact ==
    (fpc = "ret" /\ fop = "exp_mod" /\ fm > 1) =>
        /\ fres = PowMod(fa, fb, fm)
        /\ fb = 0 => fres = 1

\* exp_mod has returned for an exponent above the modulus whose lowest bit is
\* clear.
C13_BigExponent ==
    /\ fpc = "ret" /\ fop = "exp_mod"
    /\ fm > 1 /\ fb > fm /\ fb % 2 = 0 /\ fa % fm > 1
    /\ fres = PowMod(fa, fb, fm)

IsPrime(p) == p > 1 /\ \A q \in 2..(p - 1) : p % q # 0

\* C14: for every prime p > 2, every a and every b with b mod p # 0,
\* div_mod(a, b, p) is a * b^(p-2) mod p, and
\* mul_mod(div_mod(a, b, p), b, p) is a mod p.
C14_DivModInverse ==
    (fpc = "ret" /\ fop = "div_mod" /\ IsPrime(fm) /\ fm > 2 /\ fb % fm # 0) =>
        /\ fres = ((fa % fm) * PowMod(fb, fm - 2, fm)) % fm
        /\ MulMod(fres, fb, fm) = fa % fm

\* div_mod has returned a quotient for a large prime modulus.
C14_Divided ==
    /\ fpc = "ret" /\ fop = "div_mod"
    /\ IsPrime(fm) /\ fm > Pow2W \div 2 /\ fb % fm > 1 /\ fa % fm > 1
    /\ (fres * fb) % fm = fa % fm

\* C15: every signature raw_sign returns has r in [0,n) and s in [0,n), for
\* every private key, message hash and nonce.
C15_ComponentsReduced ==
    (pc \in {"signed", "verified", "recovered"} /\ ~IsPanicSig(sig)) =>
        /\ sig.r \in 0..(Curve(curve).n - 1)
        /\ sig.s \in 0..(Curve(curve).n - 1)

\* A signature of a key and nonce in [1,n) whose r, the x of nonce * G, is in
\* [n,p).
C15_RNotBelowN ==
    /\ pc = "signed" /\ InDomain
    /\ ~IsPanicSig(sig)
    /\ sig.r = EncodedNonce(nonce, curve).x
    /\ sig.r >= Curve(curve).n
    /\ sig.r < Curve(curve).p
    /\ sig.s < Curve(curve).n

\* The value (h + r * d) mod n that raw_sign divides by the nonce.
SignedSum(h, r, d, n) == ((h % n) + (r % n) * (d % n)) % n

\* The change turned s into n - s, or the hash into one whose sum with r * d
\* is the negative of the signed one.
TamperTwin ==
    LET n == Curve(curve).n
    IN \/ /\ tamper.what = "s"
          /\ FlipBit(sig.s, tamper.bit) = n - sig.s
       \/ /\ tamper.what = "h"
          /\ (SignedSum(FlipBit(msg_hash, tamper.bit), sig.r, priv, n)
                 + SignedSum(msg_hash, sig.r, priv, n)) % n = 0

C17_AffAddPrecondition ==
    (ppc = "ret" /\ pop = "aff_add") =>
        /\ IsPanicPt(pres) <=> pP.y = pQ.y
        /\ (pP.y # pQ.y /\ AffIsZeroPoint(pP)) => pres = pQ
        /\ (pP.y # pQ.y /\ AffIsZeroPoint(pQ)) => pres = pP

\* The assertion stopped identity + a point with y = 0 and x # 0.
C17_IdentityPlusYZero ==
    /\ ppc = "ret" /\ pop = "aff_add"
    /\ pP = AffZeroPoint
    /\ pQ.y = 0 /\ pQ.x # 0
    /\ IsPanicPt(pres)

\* The y raw_recover takes for the signature's r and v.
RecoveredY(c) ==
    RecoverY(sig.v, ExpMod(RecoverRhs(sig.r, c), Curve(c).sqrt_exp_num, Curve(c).p),
             Curve(c).p)

\* raw_sign replaced its first s by n - s.
SWasFlipped ==
    RawSignS(priv, msg_hash, nonce, sig.r, Curve(curve).n) > Curve(curve).n_div_2

\* C18: raw_sign returns v = 0x1b + ((y of nonce * G is odd) XOR (s was
\* replaced by n - s)), which is 0x1b or 0x1c; with R = nonce * G not the
\* identity, the y raw_recover takes for this v is R's when s was kept and
\* -R's when s was replaced.
C18_RecoveryIndicator ==
    (pc \in {"signed", "verified", "recovered"} /\ ~IsPanicSig(sig)) =>
        LET R == EncodedNonce(nonce, curve)
        IN /\ sig.v = V27 + (IF (R.y % 2 = 1) # SWasFlipped THEN 1 ELSE 0)
           /\ sig.v \in {V27, V28}
           /\ ~AffIsZeroPoint(R) =>
                 RecoveredY(curve) = IF SWasFlipped THEN Curve(curve).p - R.y ELSE R.y

\* A signature whose s was replaced and whose nonce point has an odd y: v is
\* 0x1b and raw_recover takes the even y of -R.
C18_FlippedOdd ==
    /\ pc = "signed" /\ InDomain /\ ~IsPanicSig(sig)
    /\ SWasFlipped
    /\ EncodedNonce(nonce, curve).y % 2 = 1
    /\ sig.v = V27
    /\ RecoveredY(curve) = Curve(curve).p - EncodedNonce(nonce, curve).y

\* u1, u2, s1, s2 of add(P, Q) as the integers they stand for.
JacU1 == (pP.x * pQ.z * pQ.z) % Curve(curve).p
JacU2 == (pQ.x * pP.z * pP.z) % Curve(curve).p
JacS1 == (pP.y * pQ.z * pQ.z * pQ.z) % Curve(curve).p
JacS2 == (pQ.y * pP.z * pP.z * pP.z) % Curve(curve).p

\* C19: for Jacobian points P, Q with z # 0 that stand for points of the curve
\* other than the identity: if u1 = u2, add returns the identity (0,0,1) when
\* s1 # s2 and double(P) when s1 = s2; otherwise from_jacobian(add(P, Q)) is
\* the affine add of from_jacobian(P) and from_jacobian(Q), whatever the z of
\* P and Q.
C19_JacAddGroupLaw ==
    (ppc = "ret" /\ pop = "jac_add") =>
        IF JacU1 = JacU2
        THEN (IF JacS1 # JacS2 THEN pres = JacZeroPoint
                               ELSE pres = JacDouble(pP, curve))
        ELSE FromJacobian(pres, curve)
                 = AffAdd(FromJacobian(pP, curve), FromJacobian(pQ, curve), curve)

\* Two points of the curve with different x and the same y: the Jacobian add
\* returns their sum and the affine add of the same two points aborts.
C19_AffineAbortsOnSharedY ==
    /\ ppc = "ret" /\ pop = "jac_add"
    /\ JacU1 # JacU2
    /\ pP.z # pQ.z
    /\ FromJacobian(pP, curve).y = FromJacobian(pQ, curve).y
    /\ ~IsPanicPt(pres)
    /\ IsPanicPt(AffAdd(FromJacobian(pP, curve), FromJacobian(pQ, curve), curve))

\* C20: for every affine point P of the curve, the identity (0,0) and the
\* points with P.y = 0 included, from_jacobian(double(to_jacobian(P))) is the
\* affine double(P); doubling a point with y = 0 other than the identity gives
\* the identity (0,0) after the conversion.
C20_JacDoubleMirrorsAffine ==
    (ppc = "ret" /\ pop = "jac_double") =>
        /\ ~IsPanicPt(pres)
        /\ FromJacobian(pres, curve) = AffDouble(pP, curve)
        /\ pP.y = 0 => FromJacobian(pres, curve) = AffZeroPoint

\* A point with y = 0 and x # 0: the Jacobian double returns a point with
\* z = 0, which from_jacobian turns into (0,0).
C20_YZeroDoubled ==
    /\ ppc = "ret" /\ pop = "jac_double"
    /\ pP.y = 0 /\ pP.x # 0
    /\ pres.z = 0 /\ pres.x # 0
    /\ FromJacobian(pres, curve) = AffZeroPoint

\* add was called on P and Q = (P.x, p - P.y), P not the identity, 0 < P.y < p.
NegationPair ==
    /\ ppc = "ret" /\ pop = "aff_add"
    /\ ~AffIsZeroPoint(pP)
    /\ pP.y \in 1..(Curve(curve).p - 1)
    /\ pQ = AffNeg(pP, curve)

\* C21: for a point P other than the identity with P.y # 0 and Q = (P.x,
\* p - P.y), the affine add(P, Q) passes the check of the y, reaches the slope
\* with the denominator P.x - Q.x = 0, and fails there instead of returning a
\* point.
C21_NegationFails ==
    NegationPair => (pP.y # pQ.y /\ IsPanicPt(pres))

\* C21 as it holds: add(P, Q) passes the check of the y, div_mod gives the
\* slope 0 for the denominator 0 without failing, and the call returns the
\* point (-2 * P.x mod p, p - P.y), which is not the identity.
C21_NegationReturnsPoint ==
    NegationPair =>
        /\ pP.y # pQ.y
        /\ SubMod(pP.x, pQ.x, Curve(curve).p) = 0
        /\ ~IsPanicPt(pres)
        /\ pres.x = (2 * Curve(curve).p - 2 * (pP.x % Curve(curve).p)) % Curve(curve).p
        /\ pres.y = Curve(curve).p - pP.y
        /\ ~AffIsZeroPoint(pres)

\* add(G, -G) returned a point with the y of -G.
C21_GPlusNegG ==
    /\ NegationPair
    /\ pP = G(curve)
    /\ ~IsPanicPt(pres)
    /\ pres.y = Curve(curve).p - Curve(curve).gy

\* C22: for a signature with s mod n = 0, raw_verify returns true exactly when
\* r = 0, for every message hash and every public key: h / s and r / s are
\* both 0, both multiplications return the identity, and the x = 0 of the
\* converted sum is compared with r.
C22_DegenerateS ==
    (pc \in {"verified", "recovered"} /\ sig.s % Curve(curve).n = 0) =>
        /\ DivMod(msg_hash, sig.s, Curve(curve).n) = 0
        /\ DivMod(sig.r, sig.s, Curve(curve).n) = 0
        /\ JacMultiply(ToJacobian(pub_key), 0, curve) = JacZeroPoint
        /\ verified \in {"true", "false"}
        /\ verified = "true" <=> sig.r = 0

\* raw_verify accepted r = 0, s = n under the generator as key and the largest
\* hash.
C22_ZeroRAccepted ==
    /\ pc = "verified"
    /\ sig.s = Curve(curve).n /\ sig.r = 0
    /\ pub_key = G(curve) /\ msg_hash = MAXU
    /\ verified = "true"

\* C23: for every modulus p > 2 and every a, div_mod(a, b, p) with b mod p = 0
\* returns 0 and raises no error, since 0^(p-2) = 0; a caller such as
\* from_jacobian with z = 0 receives 0 and not a failure.
C23_DivisionByZeroSilent ==
    (fpc = "ret" /\ fop = "div_mod" /\ fm > 2 /\ fb % fm = 0) =>
        /\ ~IsPanic(fres)
        /\ fres = 0
        /\ ExpMod(fb, fm - 2, fm) = 0
        /\ \A c \in Curves :
              fm = Curve(c).p =>
                  FromJacobian([x |-> fa, y |-> fa, z |-> fb], c) = AffZeroPoint

\* div_mod returned 0 for a dividend that is not 0 mod p and a divisor that is
\* a multiple of p other than 0.
C23_MultipleOfModulus ==
    /\ fpc = "ret" /\ fop = "div_mod"
    /\ fm > 2 /\ fb # 0 /\ fb % fm = 0 /\ fa % fm # 0
    /\ fres = 0

=============================================================================
